---- MODULE Spec2Model ----
(***************************************************************************)
(* Model of deduper.py: the duplicate-file pipeline find_duplicates        *)
(* (scan -> partial signatures -> full signatures -> wastage -> strategy   *)
(* and removal) over a small directory tree.                               *)
(*                                                                         *)
(* A path is an index into PathTable, whose entries are the path strings   *)
(* as sequences of character codes, so that cmp, dirname, basename and     *)
(* startswith are computed on the characters.  A file's content is its     *)
(* size in bytes and the sequence of its BLOCK_SIZE blocks, each block an  *)
(* abstract value standing for the bytes of that block.  The digest is     *)
(* collision free: it is modelled by the data that was fed to it.          *)
(***************************************************************************)
EXTENDS Integers, Sequences, FiniteSets, TLC

VARIABLES
    fs,                  \* the tree: path -> content, or Absent
    walk,                \* the order in which os.walk lists the paths
    fs_before,           \* the tree when the current run started
    strategy, dry_run, debug,            \* arguments of find_duplicates
    pc,                  \* position in find_duplicates
    error,               \* the exception that ended the run, or "none"
    size_map, sig_map0, sig_map1,        \* locals of find_duplicates
    blocks_read,         \* path -> blocks read by its last compute_signature
    duplicate_file_count, duplicate_byte_count,
    file_count, bytes_freed,
    todo,                \* keys of sig_map1 the removal loop has not visited
    files_to_keep, files_to_remove,
    reports              \* the summaries logged by the completed runs

vars == <<fs, walk, fs_before, strategy, dry_run, debug, pc, error,
          size_map, sig_map0, sig_map1, blocks_read,
          duplicate_file_count, duplicate_byte_count, file_count, bytes_freed,
          todo, files_to_keep, files_to_remove, reports>>

----------------------------------------------------------------------------
(* Bounds *)

MaxFiles == 4
MaxRuns == 2

(* Program constants *)

BLOCK_SIZE == 1024

----------------------------------------------------------------------------
(* Paths *)

CopyOf == <<67, 111, 112, 121, 32, 111, 102, 32>>      \* "Copy of "
Slash == 47

PathTable ==
    << <<100, Slash>> \o CopyOf \o <<97>>,              \* "d/Copy of a"
       <<100, Slash, 90>>,                              \* "d/Z"
       <<100, Slash, 97>>,                              \* "d/a"
       <<101, Slash, 97>>,                              \* "e/a"
       <<101, Slash, 98>>,                              \* "e/b"
       <<101, Slash>> \o CopyOf \o <<98>> >>            \* "e/Copy of b"

Paths == 1 .. Len(PathTable)

Absent == [size |-> -1, blocks |-> <<>>]

Contents ==
    { [size |-> 0,    blocks |-> <<>>],
      [size |-> 1000, blocks |-> <<1>>],
      [size |-> 1024, blocks |-> <<1>>],
      [size |-> 1024, blocks |-> <<2>>],
      [size |-> 2048, blocks |-> <<1, 1>>],
      [size |-> 2048, blocks |-> <<1, 2>>] }

Exists(f, p) == f[p] # Absent

Min(a, b) == IF a < b THEN a ELSE b

----------------------------------------------------------------------------
(* String helpers: cmp, os.path.dirname, os.path.basename *)

cmp_int(a, b) == IF a < b THEN -1 ELSE IF a > b THEN 1 ELSE 0

cmp(x, y) ==
    LET n == Min(Len(x), Len(y))
        diff == {i \in 1 .. n : x[i] # y[i]}
    IN  IF diff = {}
        THEN cmp_int(Len(x), Len(y))
        ELSE LET i == CHOOSE j \in diff : \A k \in diff : j <= k
             IN  cmp_int(x[i], y[i])

LastSlash(s) ==
    LET at == {i \in 1 .. Len(s) : s[i] = Slash}
    IN  IF at = {} THEN 0 ELSE CHOOSE i \in at : \A k \in at : k <= i

dirname(s) == SubSeq(s, 1, LastSlash(s) - 1)

basename(s) == SubSeq(s, LastSlash(s) + 1, Len(s))

startswith(s, prefix) ==
    /\ Len(s) >= Len(prefix)
    /\ SubSeq(s, 1, Len(prefix)) = prefix

has_prefix(prefix, file_name) ==
    IF startswith(file_name, prefix)
    THEN <<TRUE, SubSeq(file_name, Len(prefix) + 1, Len(file_name))>>
    ELSE <<FALSE, file_name>>

Unreachable == 2        \* stands for raise RuntimeError("Unreachable")

copy_aware_path_compare(p0, p1) ==
    LET d0 == dirname(p0)
        d1 == dirname(p1)
        n0 == basename(p0)
        n1 == basename(p1)
        r0 == has_prefix(CopyOf, n0)
        r1 == has_prefix(CopyOf, n1)
    IN  IF d0 # d1 THEN cmp(p0, p1)
        ELSE IF r0[2] = r1[2]
             THEN IF r0[1] THEN 1
                  ELSE IF r1[1] THEN -1
                  ELSE Unreachable
             ELSE cmp(n0, n1)

----------------------------------------------------------------------------
(* sorted(paths, cmp=...): CPython's list sort on fewer than 64 elements,  *)
(* which is count_run followed by a binary insertion sort                  *)

ISLT(x, y) == copy_aware_path_compare(PathTable[x], PathTable[y]) < 0

RECURSIVE ExtendRun(_, _, _)
ExtendRun(s, i, descending) ==
    IF i > Len(s) THEN Len(s)
    ELSE IF ISLT(s[i], s[i - 1]) = descending
         THEN ExtendRun(s, i + 1, descending)
         ELSE i - 1

count_run(s) ==
    IF Len(s) = 1 THEN <<1, FALSE>>
    ELSE LET descending == ISLT(s[2], s[1])
         IN  <<ExtendRun(s, 3, descending), descending>>

reverse_slice(s, n) ==
    [i \in 1 .. Len(s) |-> IF i <= n THEN s[n + 1 - i] ELSE s[i]]

RECURSIVE BinarySearch(_, _, _, _)
BinarySearch(s, pivot, l, r) ==
    IF l >= r THEN l
    ELSE LET p == l + ((r - l) \div 2)
         IN  IF ISLT(pivot, s[p])
             THEN BinarySearch(s, pivot, l, p)
             ELSE BinarySearch(s, pivot, p + 1, r)

RECURSIVE binarysort(_, _)
binarysort(s, start) ==
    IF start > Len(s) THEN s
    ELSE LET pivot == s[start]
             l == BinarySearch(s, pivot, 1, start)
             moved == SubSeq(s, 1, l - 1) \o <<pivot>> \o SubSeq(s, l, start - 1)
                          \o SubSeq(s, start + 1, Len(s))
         IN  binarysort(moved, start + 1)

sorted(s) ==
    IF Len(s) < 2 THEN s
    ELSE LET run == count_run(s)
             s1 == IF run[2] THEN reverse_slice(s, run[1]) ELSE s
         IN  binarysort(s1, run[1] + 1)

SortRaises(s) ==
    \E i, j \in 1 .. Len(s) :
        i # j /\ copy_aware_path_compare(PathTable[s[i]], PathTable[s[j]]) = Unreachable

----------------------------------------------------------------------------
(* Strategies *)

Strategies == {"nop", "keep-first"}

\* a variant that keeps only the first path
DoNotRemoveDuplicates_apply_KeepsOne(paths) == <<<<Head(paths)>>, Tail(paths)>>

DoNotRemoveDuplicates_apply(paths) == <<paths, <<>>>>

KeepFirstInCopyAwareOrder_apply(paths) ==
    LET sorted_paths == sorted(paths)
    IN  <<<<sorted_paths[1]>>, Tail(sorted_paths)>>

apply(s, paths) ==
    IF s = "nop" THEN DoNotRemoveDuplicates_apply(paths)
    ELSE KeepFirstInCopyAwareOrder_apply(paths)

----------------------------------------------------------------------------
(* Groups: a dictionary is a function from keys to sequences of paths *)

EmptyMap == [k \in {} |-> <<>>]

\* a variant that keeps singleton groups
prune_KeepsSingletons(d) == [k \in {j \in DOMAIN d : Len(d[j]) > 0} |-> d[k]]

prune(d) == [k \in {j \in DOMAIN d : Len(d[j]) > 1} |-> d[k]]

\* key maps each path of flat to its dictionary key
Regroup(flat, key) ==
    [k \in {key[flat[i]] : i \in 1 .. Len(flat)} |->
        SelectSeq(flat, LAMBDA p : key[p] = k)]

\* the enumerations of a set, one of which d.iteritems() follows
Orders(S) ==
    {o \in [1 .. Cardinality(S) -> S] :
        \A i, j \in 1 .. Cardinality(S) : o[i] = o[j] => i = j}

RECURSIVE Flatten(_, _)
Flatten(d, ord) ==
    IF ord = <<>> THEN <<>> ELSE d[Head(ord)] \o Flatten(d, Tail(ord))

----------------------------------------------------------------------------
(* scan, compute_signature, compute_signatures *)

scan(f, w) ==
    LET found == SelectSeq(w, LAMBDA p : Exists(f, p))
        file_size == [p \in {found[i] : i \in 1 .. Len(found)} |-> f[p].size]
    IN  prune(Regroup(found, file_size))

block_count(file_size, partial) ==
    IF partial THEN 1
    ELSE IF (file_size % BLOCK_SIZE) > 0
         THEN (file_size \div BLOCK_SIZE) + 1
         ELSE 0

\* the data returned by n successive f.read(BLOCK_SIZE), which is what
\* m.update receives; reads at the end of the file return nothing
ReadBlocks(content, n) == SubSeq(content.blocks, 1, Min(n, Len(content.blocks)))

compute_signature(f, path, partial) ==
    <<f[path].size, ReadBlocks(f[path], block_count(f[path].size, partial))>>

compute_signatures(f, d, ord, partial) ==
    LET flat == Flatten(d, ord)
        sig == [p \in {flat[i] : i \in 1 .. Len(flat)} |->
                   compute_signature(f, p, partial)]
    IN  prune(Regroup(flat, sig))

\* blocks hashed for each path of d by one pass of compute_signatures
BlocksRead(f, d, partial, before) ==
    [p \in Paths |->
        IF \E k \in DOMAIN d : \E i \in 1 .. Len(d[k]) : d[k][i] = p
        THEN Len(compute_signature(f, p, partial)[2])
        ELSE before[p]]

----------------------------------------------------------------------------
(* compare_files, compute_wastage *)

\* a variant that compares the sizes only
compare_files_SizesOnly(f, p0, p1) == f[p0].size = f[p1].size

compare_files(f, p0, p1) == f[p0] = f[p1]

RECURSIVE Sum(_, _)
Sum(g, keys) ==
    IF keys = {} THEN 0
    ELSE LET k == CHOOSE j \in keys : TRUE
         IN  g[k] + Sum(g, keys \ {k})

wastage_file_count(d) == Sum([k \in DOMAIN d |-> Len(d[k]) - 1], DOMAIN d)

wastage_byte_count(f, d) ==
    Sum([k \in DOMAIN d |-> f[d[k][1]].size * (Len(d[k]) - 1)], DOMAIN d)

is_valid(f, d) ==
    \A k \in DOMAIN d : \A i \in 1 .. Len(d[k]) : compare_files(f, d[k][1], d[k][i])

----------------------------------------------------------------------------
(* find_duplicates *)

\* os.walk visits the directories and lists their files in PathTable's order
listing(n) == [i \in 1 .. n |-> i]

NoBlocks == [p \in Paths |-> 0]

Locals ==
    <<size_map, sig_map0, sig_map1, blocks_read, duplicate_file_count,
      duplicate_byte_count, file_count, bytes_freed, todo, files_to_keep,
      files_to_remove>>

Args == <<strategy, dry_run, debug>>

ClearLocals ==
    /\ size_map' = EmptyMap
    /\ sig_map0' = EmptyMap
    /\ sig_map1' = EmptyMap
    /\ blocks_read' = NoBlocks
    /\ duplicate_file_count' = 0
    /\ duplicate_byte_count' = 0
    /\ file_count' = 0
    /\ bytes_freed' = 0
    /\ todo' = {}
    /\ files_to_keep' = <<>>
    /\ files_to_remove' = <<>>

Init ==
    /\ \E n \in 0 .. MaxFiles :
         \E c \in [1 .. n -> Contents] :
           /\ fs = [p \in Paths |-> IF p <= n THEN c[p] ELSE Absent]
           /\ walk = listing(n)
    /\ fs_before = fs
    /\ strategy \in Strategies
    /\ dry_run \in BOOLEAN
    /\ debug \in BOOLEAN
    /\ pc = "scan"
    /\ error = "none"
    /\ size_map = EmptyMap
    /\ sig_map0 = EmptyMap
    /\ sig_map1 = EmptyMap
    /\ blocks_read = NoBlocks
    /\ duplicate_file_count = 0
    /\ duplicate_byte_count = 0
    /\ file_count = 0
    /\ bytes_freed = 0
    /\ todo = {}
    /\ files_to_keep = <<>>
    /\ files_to_remove = <<>>
    /\ reports = <<>>

\* an exception leaves find_duplicates: its locals are gone
Raise(e) ==
    /\ pc' = "aborted"
    /\ error' = e
    /\ ClearLocals
    /\ UNCHANGED <<fs, walk, fs_before, Args, reports>>

Scan ==
    /\ pc = "scan"
    /\ size_map' = scan(fs, walk)
    /\ pc' = "partial"
    /\ UNCHANGED <<fs, walk, fs_before, Args, error, sig_map0, sig_map1,
                   blocks_read, duplicate_file_count, duplicate_byte_count,
                   file_count, bytes_freed, todo, files_to_keep,
                   files_to_remove, reports>>

PartialSignatures ==
    /\ pc = "partial"
    /\ \E ord \in Orders(DOMAIN size_map) :
         sig_map0' = compute_signatures(fs, size_map, ord, TRUE)
    /\ blocks_read' = BlocksRead(fs, size_map, TRUE, blocks_read)
    /\ pc' = "full"
    /\ UNCHANGED <<fs, walk, fs_before, Args, error, size_map, sig_map1,
                   duplicate_file_count, duplicate_byte_count,
                   file_count, bytes_freed, todo, files_to_keep,
                   files_to_remove, reports>>

FullSignatures ==
    /\ pc = "full"
    /\ \E ord \in Orders(DOMAIN sig_map0) :
         sig_map1' = compute_signatures(fs, sig_map0, ord, FALSE)
    /\ blocks_read' = BlocksRead(fs, sig_map0, FALSE, blocks_read)
    /\ pc' = "wastage"
    /\ UNCHANGED <<fs, walk, fs_before, Args, error, size_map, sig_map0,
                   duplicate_file_count, duplicate_byte_count,
                   file_count, bytes_freed, todo, files_to_keep,
                   files_to_remove, reports>>

ComputeWastage ==
    /\ pc = "wastage"
    /\ IF debug /\ ~is_valid(fs, sig_map1)
       THEN Raise("Diagnostics failed")
       ELSE /\ duplicate_file_count' = wastage_file_count(sig_map1)
            /\ duplicate_byte_count' = wastage_byte_count(fs, sig_map1)
            /\ todo' = DOMAIN sig_map1
            /\ pc' = "strategy"
            /\ UNCHANGED <<fs, walk, fs_before, Args, error, size_map,
                           sig_map0, sig_map1, blocks_read, file_count,
                           bytes_freed, files_to_keep, files_to_remove,
                           reports>>

\* one iteration of "for _, paths in sig_map1.iteritems()" up to the inner loop
ApplyStrategy ==
    /\ pc = "strategy"
    /\ \E k \in todo :
         IF strategy = "keep-first" /\ SortRaises(sig_map1[k])
         THEN Raise("Unreachable")
         ELSE LET decision == apply(strategy, sig_map1[k])
              IN  /\ files_to_keep' = decision[1]
                  /\ files_to_remove' = decision[2]
                  /\ file_count' = file_count + Len(decision[2])
                  /\ todo' = todo \ {k}
                  /\ pc' = IF decision[2] = <<>> THEN "strategy" ELSE "remove"
                  /\ UNCHANGED <<fs, walk, fs_before, Args, error, size_map,
                                 sig_map0, sig_map1, blocks_read,
                                 duplicate_file_count, duplicate_byte_count,
                                 bytes_freed, reports>>

\* a variant that ignores dry_run
unlinks_Always(dry) == TRUE

unlinks(dry) == ~dry

\* one iteration of "for path in files_to_remove"
RemoveFile ==
    /\ pc = "remove"
    /\ LET path == Head(files_to_remove)
       IN  /\ bytes_freed' = bytes_freed + fs[path].size
           /\ fs' = IF unlinks(dry_run) THEN [fs EXCEPT ![path] = Absent] ELSE fs
    /\ files_to_remove' = Tail(files_to_remove)
    /\ pc' = IF Tail(files_to_remove) = <<>> THEN "strategy" ELSE "remove"
    /\ UNCHANGED <<walk, fs_before, Args, error, size_map, sig_map0, sig_map1,
                   blocks_read, duplicate_file_count, duplicate_byte_count,
                   file_count, todo, files_to_keep, reports>>

\* the loop is over: the summary is logged and find_duplicates returns
Finish ==
    /\ pc = "strategy"
    /\ todo = {}
    /\ reports' = Append(reports,
                         [duplicate_file_count |-> duplicate_file_count,
                          duplicate_byte_count |-> duplicate_byte_count,
                          file_count |-> file_count,
                          bytes_freed |-> bytes_freed])
    /\ pc' = "done"
    /\ ClearLocals
    /\ UNCHANGED <<fs, walk, fs_before, Args, error>>

\* os.stat, open, read or os.unlink fails on a file the current stage touches
TouchesFile ==
    \/ pc = "scan" /\ \E p \in Paths : Exists(fs, p)
    \/ pc = "partial" /\ DOMAIN size_map # {}
    \/ pc = "full" /\ DOMAIN sig_map0 # {}
    \/ pc = "wastage" /\ DOMAIN sig_map1 # {}
    \/ pc = "remove"

RaiseIOError ==
    /\ TouchesFile
    /\ Raise("EnvironmentError")

\* find_duplicates is run again on the tree, with the same arguments
Rerun ==
    /\ pc = "done"
    /\ Len(reports) < MaxRuns
    /\ pc' = "scan"
    /\ fs_before' = fs
    /\ UNCHANGED <<fs, walk, Args, error, Locals, reports>>

Next ==
    \/ Scan
    \/ PartialSignatures
    \/ FullSignatures
    \/ ComputeWastage
    \/ ApplyStrategy
    \/ RemoveFile
    \/ Finish
    \/ RaiseIOError
    \/ Rerun

Spec == Init /\ [][Next]_vars

----------------------------------------------------------------------------
(* Properties *)

Members(paths) == {paths[i] : i \in 1 .. Len(paths)}

Ceil(n, m) == (n + m - 1) \div m

SameBytes(f, paths) == \A i, j \in 1 .. Len(paths) : f[paths[i]] = f[paths[j]]

\* C1: after a completed keep-first run with dry_run = False, every content
\* that was in the tree before the run is still the content of some file.
C1_EveryContentSurvives ==
    (pc = "done" /\ strategy = "keep-first" /\ ~dry_run) =>
        \A p \in Paths :
            Exists(fs_before, p) => \E q \in Paths : fs[q] = fs_before[p]

\* C2: every group that survives the full-signature pass holds only
\* pairwise byte-identical files.
C2_FullGroupsAreIdentical ==
    pc = "wastage" => \A k \in DOMAIN sig_map1 : SameBytes(fs, sig_map1[k])

\* C3: in the full pass the number of blocks hashed for a file is
\* ceil(size / BLOCK_SIZE), for every file the full pass reads.
C3_FullPassHashesEveryBlock ==
    pc = "wastage" =>
        \A k \in DOMAIN sig_map0 : \A p \in Members(sig_map0[k]) :
            blocks_read[p] = Ceil(fs[p].size, BLOCK_SIZE)

ReportsAsIfDeleted(r) ==
    IF strategy = "keep-first"
    THEN /\ r.file_count = r.duplicate_file_count
         /\ r.bytes_freed = r.duplicate_byte_count
    ELSE r.file_count = 0 /\ r.bytes_freed = 0

\* C4: with dry_run = True the tree never changes, the logged removed-file
\* count and bytes freed are those of the deletions the strategy decided,
\* and every run over the tree logs the same summary as the first.
C4_DryRunChangesNothing ==
    dry_run =>
        /\ fs = fs_before
        /\ \A i \in 1 .. Len(reports) :
             /\ ReportsAsIfDeleted(reports[i])
             /\ reports[i] = reports[1]

C4_Witness ==
    /\ dry_run
    /\ strategy = "keep-first"
    /\ Len(reports) = 2
    /\ reports[2].file_count > 0
    /\ reports[2].bytes_freed > 0

\* C5: with the "nop" strategy apply keeps all the paths of the group and
\* removes none, no file is deleted and every summary says 0 files removed
\* and 0 bytes freed, whatever dry_run is.
C5_NopRemovesNothing ==
    strategy = "nop" =>
        /\ files_to_remove = <<>>
        /\ pc # "remove"
        /\ files_to_keep # <<>> =>
             \E k \in DOMAIN sig_map1 : files_to_keep = sig_map1[k]
        /\ fs = fs_before
        /\ file_count = 0 /\ bytes_freed = 0
        /\ \A i \in 1 .. Len(reports) :
             reports[i].file_count = 0 /\ reports[i].bytes_freed = 0

C5_Witness ==
    /\ strategy = "nop"
    /\ ~dry_run
    /\ pc = "done"
    /\ reports[1].duplicate_file_count >= 2
    /\ reports[1].file_count = 0

\* C6: a failing os.stat, read or os.unlink on one file never ends the run.
C6_IOErrorNeverAborts ==
    ~(pc = "aborted" /\ error = "EnvironmentError")

\* C7: with debug set, a run never gets past compute_wastage while a final
\* group holds files whose bytes differ, and a run ended by the failed
\* diagnostics has deleted no file.
C7_FailedDiagnosticsDeleteNothing ==
    /\ (debug /\ pc \in {"strategy", "remove"}) =>
          \A k \in DOMAIN sig_map1 : SameBytes(fs_before, sig_map1[k])
    /\ error = "Diagnostics failed" =>
          /\ pc = "aborted"
          /\ debug
          /\ fs = fs_before

C7_Witness ==
    /\ pc = "aborted"
    /\ error = "Diagnostics failed"
    /\ ~dry_run
    /\ strategy = "keep-first"

IsCopyOf(c, x) ==
    /\ dirname(c) = dirname(x)
    /\ basename(c) = CopyOf \o basename(x)

\* C8: keep-first keeps exactly one path, and never keeps "d/Copy of X"
\* while removing "d/X" of the same group.
C8_CopyIsNeverKeptOverOriginal ==
    (strategy = "keep-first" /\ pc = "remove") =>
        /\ Len(files_to_keep) = 1
        /\ \A r \in Members(files_to_remove) :
             ~IsCopyOf(PathTable[files_to_keep[1]], PathTable[r])

GroupsAreSound(d) ==
    \A k \in DOMAIN d :
        /\ Len(d[k]) >= 2
        /\ \A p, q \in Members(d[k]) : fs_before[p].size = fs_before[q].size

\* C9: in the size map, the partial-signature map and the full-signature
\* map, the files of a group have one size and a group has at least 2 files.
C9_GroupsShareSizeAndArePruned ==
    /\ GroupsAreSound(size_map)
    /\ GroupsAreSound(sig_map0)
    /\ GroupsAreSound(sig_map1)

C9_Witness ==
    /\ pc = "wastage"
    /\ Cardinality(DOMAIN size_map) = 2
    /\ Cardinality(DOMAIN sig_map0) = 2
    /\ Cardinality(DOMAIN sig_map1) = 2

Refines(d, e) ==
    \A k \in DOMAIN d : \E j \in DOMAIN e : Members(d[k]) \subseteq Members(e[j])

\* C10: every full-signature group lies within one partial-signature group,
\* and every partial-signature group within one size group.
C10_StagesOnlyRefine ==
    pc = "wastage" => Refines(sig_map1, sig_map0) /\ Refines(sig_map0, size_map)

====
